---- MODULE Spec2Model ----
(***************************************************************************)
(* A model of the JustCMS client for Next.js (src/lib/justCms.ts):        *)
(* createJustCmsClient, its request helper get, the six resource          *)
(* accessors and the content helpers isBlockHasStyle and                  *)
(* getLargeImageVariant.                                                   *)
(*                                                                         *)
(* JavaScript values are tagged records: Undef, Null, Str(s), Num(n),     *)
(* Obj(entries) (entries in insertion order, as Object.entries yields     *)
(* them).  An async function is cut at its awaits: one action per         *)
(* continuation.  The transport (fetch) is the environment: it resolves   *)
(* a request with any response of a small set, or rejects it.             *)
(***************************************************************************)
EXTENDS Integers, Sequences, FiniteSets, TLC

VARIABLES
    env,      \* process.env: NEXT_PUBLIC_JUSTCMS_TOKEN / _PROJECT
    client,   \* the closure of createJustCmsClient: token, projectId (or the error thrown)
    calls,    \* per call slot: the accessor call in progress and where it is suspended
    wire,     \* per call slot: the requests the call handed to fetch, in order
    helper    \* the last content-helper call: its input, the block afterwards, its result

vars == <<env, client, calls, wire, helper>>

----------------------------------------------------------------------------
(* Bounds of the model *)

\* number of call slots (accessor calls that can be in flight at once)
MaxCalls == 2
\* longest ids array given to getLayoutsByIds
MaxIds == 2
\* most entries in a query mapping handed to get directly
MaxKeys == 2
\* longest style string, in characters
MaxStrLen == 2
\* longest block.styles array
MaxStyles == 2
\* longest image.variants array
MaxVariants == 2

CallIds == 1..MaxCalls

----------------------------------------------------------------------------
(* JavaScript values *)

Undef == [t |-> "undefined"]
Null == [t |-> "null"]
Str(s) == [t |-> "string", v |-> s]
Num(n) == [t |-> "number", v |-> n]
\* an object: its own enumerable entries <<key, value>> in insertion order
Obj(entries) == [t |-> "object", entries |-> entries]

\* ToBoolean, as `||`, `!` and `if (x)` apply it
Truthy(v) ==
    CASE v.t = "undefined" -> FALSE
      [] v.t = "null" -> FALSE
      [] v.t = "string" -> v.v # ""
      [] v.t = "number" -> v.v # 0
      [] OTHER -> TRUE

\* a || b
OrElse(a, b) == IF Truthy(a) THEN a ELSE b

Digit == <<"0", "1", "2", "3", "4", "5", "6", "7", "8", "9">>

RECURSIVE NumToString(_)
\* Number::toString of a non-negative integer, radix 10
NumToString(n) ==
    IF n < 10 THEN Digit[n + 1]
    ELSE NumToString(n \div 10) \o Digit[(n % 10) + 1]

\* String(value)
ToStr(v) ==
    CASE v.t = "string" -> v.v
      [] v.t = "number" -> NumToString(v.v)
      [] v.t = "undefined" -> "undefined"
      [] v.t = "null" -> "null"
      [] OTHER -> "[object Object]"

RECURSIVE Join(_, _)
\* Array.prototype.join over an array of strings
Join(arr, sep) ==
    IF Len(arr) = 0 THEN ""
    ELSE IF Len(arr) = 1 THEN arr[1]
    ELSE arr[1] \o sep \o Join(Tail(arr), sep)

\* a thrown / rejected error object
Err(name, message) == [name |-> name, message |-> message]

----------------------------------------------------------------------------
(* createJustCmsClient: credential resolution *)

\* mutant of ResolveToken: `??` in place of `||` (an empty argument is kept)
ResolveTokenNullish(apiToken, e) ==
    IF apiToken \in {Undef, Null} THEN e.NEXT_PUBLIC_JUSTCMS_TOKEN ELSE apiToken

\* const token = apiToken || process.env.NEXT_PUBLIC_JUSTCMS_TOKEN
ResolveToken(apiToken, e) == OrElse(apiToken, e.NEXT_PUBLIC_JUSTCMS_TOKEN)

\* const projectId = projectIdParam || process.env.NEXT_PUBLIC_JUSTCMS_PROJECT
ResolveProjectId(projectIdParam, e) == OrElse(projectIdParam, e.NEXT_PUBLIC_JUSTCMS_PROJECT)

\* the two guards of the constructor: what it throws, or "none"
ConstructionError(token, projectId) ==
    IF ~Truthy(token) THEN Err("Error", "JustCMS API token is required")
    ELSE IF ~Truthy(projectId) THEN Err("Error", "JustCMS project ID is required")
    ELSE Err("none", "")

\* the outcome of createJustCmsClient(apiToken, projectIdParam) under environment e
createJustCmsClient(apiToken, projectIdParam, e) ==
    LET token == ResolveToken(apiToken, e)
        projectId == ResolveProjectId(projectIdParam, e)
        thrown == ConstructionError(token, projectId)
    IN  [state |-> IF thrown.name = "none" THEN "ready" ELSE "failed",
         apiToken |-> apiToken,
         projectIdParam |-> projectIdParam,
         token |-> token,
         projectId |-> projectId,
         error |-> thrown]

BASE_URL == "https://api.justcms.co/public"

----------------------------------------------------------------------------
(* get: the request helper, cut at its awaits *)

RECURSIVE AppendParamsTruthy(_, _)
\* mutant of AppendParams: `if (value)` in place of the undefined / null test
AppendParamsTruthy(entries, acc) ==
    IF Len(entries) = 0 THEN acc
    ELSE AppendParamsTruthy(
             Tail(entries),
             IF Truthy(entries[1][2])
             THEN Append(acc, <<entries[1][1], ToStr(entries[1][2])>>)
             ELSE acc)

RECURSIVE AppendParams(_, _)
\* Object.entries(queryParams).forEach: append every entry whose value is
\* neither undefined nor null, as <<key, String(value)>>
AppendParams(entries, acc) ==
    IF Len(entries) = 0 THEN acc
    ELSE LET key == entries[1][1]
             value == entries[1][2]
         IN  AppendParams(
                 Tail(entries),
                 IF value # Undef /\ value # Null
                 THEN Append(acc, <<key, ToStr(value)>>)
                 ELSE acc)

\* url.searchParams after the `if (queryParams) { ... }` block
SearchParams(queryParams) ==
    IF Truthy(queryParams) THEN AppendParams(queryParams.entries, <<>>) ELSE <<>>

\* new URL(`${BASE_URL}/${projectId}${endpoint ? '/' + endpoint : ''}`), before the query
UrlPath(projectId, endpoint) ==
    BASE_URL \o "/" \o ToStr(projectId) \o (IF endpoint # "" THEN "/" \o endpoint ELSE "")

RECURSIVE SerializeParams(_)
\* the query of url.toString(): name=value pairs joined by '&' (names and
\* values of the model hold only characters the serializer leaves as they are)
SerializeParams(params) ==
    IF Len(params) = 0 THEN ""
    ELSE params[1][1] \o "=" \o params[1][2]
         \o (IF Len(params) = 1 THEN "" ELSE "&" \o SerializeParams(Tail(params)))

\* url.toString()
UrlToString(path, params) ==
    path \o (IF Len(params) = 0 THEN "" ELSE "?" \o SerializeParams(params))

\* headers: { Authorization: `Bearer ${token}` }
AuthHeaders(token) == << <<"Authorization", "Bearer " \o ToStr(token)>> >>

\* what get hands to fetch: fetch(url.toString(), { headers }).  path and
\* searchParams are the parts of the URL object that url is the string of:
\* origin and pathname, and the query's entries
GetRequest(cl, endpoint, queryParams) ==
    LET params == SearchParams(queryParams)
    IN  [url |-> UrlToString(UrlPath(cl.projectId, endpoint), params),
         path |-> UrlPath(cl.projectId, endpoint),
         searchParams |-> params,
         headers |-> AuthHeaders(cl.token)]

\* response.ok
ResponseOk(resp) == resp.status >= 200 /\ resp.status <= 299

\* mutant of ApiError: the body text is left out of the message
ApiErrorStatusOnly(status, errorText) ==
    Err("Error", "JustCMS API error " \o NumToString(status))

\* throw new Error(`JustCMS API error ${response.status}: ${errorText}`)
ApiError(status, errorText) ==
    Err("Error", "JustCMS API error " \o NumToString(status) \o ": " \o errorText)

----------------------------------------------------------------------------
(* The transport and the response bodies *)

CategoriesBody == "{\"categories\":[{\"name\":\"Blog\",\"slug\":\"blog\"}]}"
MessageBody == "{\"message\":\"gone\"}"
NotFoundBody == "not found"
NullBody == "null"

Bodies == {CategoriesBody, MessageBody, NotFoundBody, NullBody}
Statuses == {200, 404, 500}
Responses == [status : Statuses, body : Bodies]

Arr(items) == [t |-> "array", items |-> items]
BlogCategory == Obj(<< <<"name", Str("Blog")>>, <<"slug", Str("blog")>> >>)

\* response.json() on a body of Bodies: the parsed value, or the SyntaxError
JsonParse(text) ==
    CASE text = CategoriesBody ->
             [ok |-> TRUE, value |-> Obj(<< <<"categories", Arr(<<BlogCategory>>)>> >>)]
      [] text = MessageBody ->
             [ok |-> TRUE, value |-> Obj(<< <<"message", Str("gone")>> >>)]
      [] text = NullBody -> [ok |-> TRUE, value |-> Null]
      [] OTHER -> [ok |-> FALSE, value |-> Undef]

\* a rejected fetch / body read: the transport's own error, passed through
TransportError == Err("TypeError", "fetch failed")
ParseError == Err("SyntaxError", "Unexpected token in JSON")

Value(v) == [kind |-> "value", value |-> v, error |-> Err("none", "")]
Failure(e) == [kind |-> "error", value |-> Undef, error |-> e]
NoOutcome == [kind |-> "none", value |-> Undef, error |-> Err("none", "")]

\* data.categories
CategoriesOf(data) ==
    IF data.t \in {"undefined", "null"}
    THEN Failure(Err("TypeError", "Cannot read properties of null (reading 'categories')"))
    ELSE IF data.t = "object" /\ \E i \in 1..Len(data.entries) : data.entries[i][1] = "categories"
    THEN Value(data.entries[CHOOSE i \in 1..Len(data.entries) : data.entries[i][1] = "categories"][2])
    ELSE Value(Undef)

----------------------------------------------------------------------------
(* The resource accessors: the endpoint and the query each hands to get *)

GetArgs(endpoint, queryParams) == [endpoint |-> endpoint, queryParams |-> queryParams]

\* get<CategoriesResponse>(): endpoint defaults to '', queryParams is undefined
getCategories == GetArgs("", Undef)

\* params?.filters?.category?.slug
FilterSlug(params) ==
    IF params.t = "undefined" THEN Undef
    ELSE IF params.filters.t = "undefined" THEN Undef
    ELSE params.filters.category.slug

\* params?.start
StartOf(params) == IF params.t = "undefined" THEN Undef ELSE params.start

\* params?.offset
OffsetOf(params) == IF params.t = "undefined" THEN Undef ELSE params.offset

\* mutant of PagesQuery: `if (params?.start)` / `if (params?.offset)`, which drop zero
PagesQueryTruthy(params) ==
    LET q1 == IF Truthy(FilterSlug(params))
              THEN << <<"filter.category.slug", FilterSlug(params)>> >>
              ELSE <<>>
        q2 == IF Truthy(StartOf(params))
              THEN Append(q1, <<"start", StartOf(params)>>)
              ELSE q1
    IN  IF Truthy(OffsetOf(params))
        THEN Append(q2, <<"offset", OffsetOf(params)>>)
        ELSE q2

\* the three conditional assignments into query, in source order
PagesQuery(params) ==
    LET q1 == IF Truthy(FilterSlug(params))
              THEN << <<"filter.category.slug", FilterSlug(params)>> >>
              ELSE <<>>
        q2 == IF StartOf(params) # Undef
              THEN Append(q1, <<"start", StartOf(params)>>)
              ELSE q1
    IN  IF OffsetOf(params) # Undef
        THEN Append(q2, <<"offset", OffsetOf(params)>>)
        ELSE q2

getPages(params) == GetArgs("pages", Obj(PagesQuery(params)))

\* mutant of VersionQuery: `if (version !== undefined)`, which keeps an empty version
VersionQueryDefined(version) ==
    IF version # Undef THEN << <<"v", version>> >> ELSE <<>>

\* if (version) { query['v'] = version; }
VersionQuery(version) ==
    IF Truthy(version) THEN << <<"v", version>> >> ELSE <<>>

getPageBySlug(slug, version) == GetArgs("pages/" \o slug, Obj(VersionQuery(version)))

getMenuById(id) == GetArgs("menus/" \o id, Undef)

getLayoutById(id) == GetArgs("layouts/" \o id, Undef)

\* mutant of getLayoutsByIds: ids.join() with its default separator ','
getLayoutsByIdsComma(ids) == GetArgs("layouts/" \o Join(ids, ","), Undef)

getLayoutsByIds(ids) == GetArgs("layouts/" \o Join(ids, ";"), Undef)

\* the get(...) call an accessor call makes ("get": get called directly)
AccessorGet(a) ==
    CASE a.op = "getCategories" -> getCategories
      [] a.op = "getPages" -> getPages(a.params)
      [] a.op = "getPageBySlug" -> getPageBySlug(a.slug, a.version)
      [] a.op = "getMenuById" -> getMenuById(a.id)
      [] a.op = "getLayoutById" -> getLayoutById(a.id)
      [] a.op = "getLayoutsByIds" -> getLayoutsByIds(a.ids)
      [] OTHER -> GetArgs(a.endpoint, a.queryParams)

----------------------------------------------------------------------------
(* Inputs *)

SeqsUpTo(S, n) == UNION {[1..k -> S] : k \in 0..n}

EnvValues == {Undef, Str(""), Str("envtok")}
Envs == [NEXT_PUBLIC_JUSTCMS_TOKEN : EnvValues,
         NEXT_PUBLIC_JUSTCMS_PROJECT : {Undef, Str(""), Str("envproj")}]
TokenArgs == {Undef, Str(""), Str("tok")}
ProjectArgs == {Undef, Str(""), Str("proj")}

Slugs == {"about", "missing"}
Versions == {Undef, Str(""), Str("draft")}
Ids == {"a", "b", "x;y"}
Filters == {Undef} \cup
    {[t |-> "object", category |-> [slug |-> Str(s)]] : s \in {"", "blog"}}
Counts == {Undef, Num(0), Num(10)}
PageParams == {Undef} \cup
    [t : {"object"}, filters : Filters, start : Counts, offset : Counts]

AccessorCalls ==
    {[op |-> "getCategories"]}
    \cup [op : {"getPages"}, params : PageParams]
    \cup [op : {"getPageBySlug"}, slug : Slugs, version : Versions]
    \cup [op : {"getMenuById"}, id : Ids]
    \cup [op : {"getLayoutById"}, id : Ids]
    \cup [op : {"getLayoutsByIds"}, ids : SeqsUpTo(Ids, MaxIds)]

\* a few calls and responses, for the runs with several calls in flight
FewCalls ==
    {[op |-> "getCategories"],
     [op |-> "getPageBySlug", slug |-> "missing", version |-> Undef],
     [op |-> "getPageBySlug", slug |-> "about", version |-> Str("draft")],
     [op |-> "getLayoutsByIds", ids |-> <<"a", "b">>]}
FewResponses ==
    {[status |-> 200, body |-> CategoriesBody],
     [status |-> 200, body |-> NotFoundBody],
     [status |-> 404, body |-> NotFoundBody]}

\* query mappings handed to get directly: distinct keys, any scalar or absent value
QueryKeys == {"start", "v", "q"}
QueryValues == {Undef, Null, Num(0), Num(10), Str(""), Str("x")}
QueryEntries ==
    {q \in SeqsUpTo(QueryKeys \X QueryValues, MaxKeys) :
        \A i, j \in 1..Len(q) : i # j => q[i][1] # q[j][1]}
DirectGetCalls ==
    [op : {"get"}, endpoint : {"", "pages"},
     queryParams : {Undef} \cup {Obj(q) : q \in QueryEntries}]

----------------------------------------------------------------------------
(* State *)

NoClient ==
    [state |-> "none", apiToken |-> Undef, projectIdParam |-> Undef,
     token |-> Undef, projectId |-> Undef, error |-> Err("none", "")]
NoResponse == [status |-> 0, body |-> ""]
\* body: the response's body stream: "unread", "read" (text() or json() consumed
\* it) or "failed" (the read was rejected)
IdleCall ==
    [pc |-> "idle", call |-> [op |-> "none"], resp |-> NoResponse,
     body |-> "unread", out |-> NoOutcome]
NoHelper == [fn |-> "none"]

\* a client built from explicit credentials, for the runs that start after construction
ReadyClient ==
    createJustCmsClient(Str("tok"), Str("proj"),
        [NEXT_PUBLIC_JUSTCMS_TOKEN |-> Undef, NEXT_PUBLIC_JUSTCMS_PROJECT |-> Undef])

Init ==
    /\ env \in Envs
    /\ client = NoClient
    /\ calls = [c \in CallIds |-> IdleCall]
    /\ wire = [c \in CallIds |-> <<>>]
    /\ helper = NoHelper

----------------------------------------------------------------------------
(* Actions *)

\* createJustCmsClient(apiToken, projectIdParam); after a throw the caller may call it again
Create(apiToken, projectIdParam) ==
    /\ client.state # "ready"
    /\ client' = createJustCmsClient(apiToken, projectIdParam, env)
    /\ UNCHANGED <<env, calls, wire, helper>>

\* an accessor is called: it runs to `await fetch(...)` in get
Invoke(c, a) ==
    /\ client.state = "ready"
    /\ calls[c].pc = "idle"
    /\ LET g == AccessorGet(a)
       IN  wire' = [wire EXCEPT ![c] = Append(@, GetRequest(client, g.endpoint, g.queryParams))]
    /\ calls' = [calls EXCEPT ![c] = [IdleCall EXCEPT !.pc = "fetch", !.call = a]]
    /\ UNCHANGED <<env, client, helper>>

\* mutant of FetchResolve: the response is kept in a variable shared by the
\* calls, so every call waiting for its fetch continues with it
FetchResolveShared(c, resp) ==
    /\ calls[c].pc = "fetch"
    /\ calls' = [d \in CallIds |->
                    IF calls[d].pc = "fetch"
                    THEN [calls[d] EXCEPT !.pc = IF ResponseOk(resp) THEN "json" ELSE "text",
                                          !.resp = resp]
                    ELSE calls[d]]
    /\ UNCHANGED <<env, client, wire, helper>>

\* fetch resolves: `if (!response.ok)` chooses response.text() or response.json()
FetchResolve(c, resp) ==
    /\ calls[c].pc = "fetch"
    /\ calls' = [calls EXCEPT ![c].pc = IF ResponseOk(resp) THEN "json" ELSE "text",
                              ![c].resp = resp]
    /\ UNCHANGED <<env, client, wire, helper>>

\* mutant of FetchReject: the failed request is issued once more
FetchRejectRetry(c) ==
    /\ calls[c].pc = "fetch"
    /\ Len(wire[c]) < 2
    /\ wire' = [wire EXCEPT ![c] = Append(@, @[1])]
    /\ UNCHANGED <<env, client, calls, helper>>

\* fetch rejects (network, DNS, TLS): the rejection passes through get and the accessor
FetchReject(c) ==
    /\ calls[c].pc = "fetch"
    /\ calls' = [calls EXCEPT ![c].pc = "done", ![c].out = Failure(TransportError)]
    /\ UNCHANGED <<env, client, wire, helper>>

\* response.text() resolves: get throws the API error
TextResolve(c) ==
    /\ calls[c].pc = "text"
    /\ calls' = [calls EXCEPT ![c].pc = "done", ![c].body = "read",
                              ![c].out = Failure(ApiError(calls[c].resp.status, calls[c].resp.body))]
    /\ UNCHANGED <<env, client, wire, helper>>

\* response.json() settles; getCategories then reads data.categories
JsonSettle(c) ==
    /\ calls[c].pc = "json"
    /\ LET parsed == JsonParse(calls[c].resp.body)
           out == IF ~parsed.ok THEN Failure(ParseError)
                  ELSE IF calls[c].call.op = "getCategories" THEN CategoriesOf(parsed.value)
                  ELSE Value(parsed.value)
       IN  calls' = [calls EXCEPT ![c].pc = "done", ![c].body = "read", ![c].out = out]
    /\ UNCHANGED <<env, client, wire, helper>>

\* the body stream fails while response.text() / response.json() reads it
BodyReject(c) ==
    /\ calls[c].pc \in {"text", "json"}
    /\ calls' = [calls EXCEPT ![c].pc = "done", ![c].body = "failed",
                              ![c].out = Failure(TransportError)]
    /\ UNCHANGED <<env, client, wire, helper>>

\* the caller has taken the settled promise's outcome: the slot is free again
Release(c) ==
    /\ calls[c].pc = "done"
    /\ calls' = [calls EXCEPT ![c] = IdleCall]
    /\ wire' = [wire EXCEPT ![c] = <<>>]
    /\ UNCHANGED <<env, client, helper>>

----------------------------------------------------------------------------
(* Specifications *)

\* the slot used when calls are made one after another
OneAtATime == {CHOOSE c \in CallIds : \A d \in CallIds : c <= d}

\* construction from any environment and arguments, then accessor calls one at a time
Next ==
    \/ \E t \in TokenArgs, p \in ProjectArgs : Create(t, p)
    \/ \E c \in OneAtATime, a \in AccessorCalls : Invoke(c, a)
    \/ \E c \in OneAtATime, r \in Responses : FetchResolve(c, r)
    \/ \E c \in OneAtATime : FetchReject(c)
    \/ \E c \in OneAtATime : TextResolve(c)
    \/ \E c \in OneAtATime : JsonSettle(c)
    \/ \E c \in OneAtATime : BodyReject(c)
    \/ \E c \in OneAtATime : Release(c)

Spec == Init /\ [][Next]_vars

\* a ready client, with several accessor calls in flight at once
InitConcurrent ==
    /\ env = [NEXT_PUBLIC_JUSTCMS_TOKEN |-> Str("envtok"),
              NEXT_PUBLIC_JUSTCMS_PROJECT |-> Str("envproj")]
    /\ client = NoClient
    /\ calls = [c \in CallIds |-> IdleCall]
    /\ wire = [c \in CallIds |-> <<>>]
    /\ helper = NoHelper

NextConcurrent ==
    \/ \E t \in {Undef, Str("tok")}, p \in {Undef, Str("proj")} : Create(t, p)
    \/ \E c \in CallIds, a \in FewCalls : Invoke(c, a)
    \/ \E c \in CallIds, r \in FewResponses : FetchResolve(c, r)
    \/ \E c \in CallIds : FetchReject(c)
    \/ \E c \in CallIds : TextResolve(c)
    \/ \E c \in CallIds : JsonSettle(c)
    \/ \E c \in CallIds : BodyReject(c)
    \/ \E c \in CallIds : Release(c)

SpecConcurrent == InitConcurrent /\ [][NextConcurrent]_vars

\* get applied to any endpoint and query mapping, on a ready client
InitGet ==
    /\ env = [NEXT_PUBLIC_JUSTCMS_TOKEN |-> Undef, NEXT_PUBLIC_JUSTCMS_PROJECT |-> Undef]
    /\ client = ReadyClient
    /\ calls = [c \in CallIds |-> IdleCall]
    /\ wire = [c \in CallIds |-> <<>>]
    /\ helper = NoHelper

NextGet ==
    \/ \E c \in OneAtATime, a \in DirectGetCalls : Invoke(c, a)
    \/ \E c \in OneAtATime, r \in FewResponses : FetchResolve(c, r)
    \/ \E c \in OneAtATime : FetchReject(c)
    \/ \E c \in OneAtATime : TextResolve(c)
    \/ \E c \in OneAtATime : JsonSettle(c)
    \/ \E c \in OneAtATime : BodyReject(c)
    \/ \E c \in OneAtATime : Release(c)

SpecGet == InitGet /\ [][NextGet]_vars

----------------------------------------------------------------------------
(* Content helpers: pure functions of already-fetched data.  A style is a    *)
(* sequence of characters.                                                    *)

Chars == {"a", "A", "b"}
Styles == SeqsUpTo(Chars, MaxStrLen)
Blocks == [styles : SeqsUpTo(Styles, MaxStyles)]

\* the lower-case mapping of one character
LowerChar(ch) ==
    CASE ch = "A" -> "a"
      [] ch = "B" -> "b"
      [] OTHER -> ch

\* String.prototype.toLowerCase
toLowerCase(s) == [i \in 1..Len(s) |-> LowerChar(s[i])]

\* Array.prototype.map with toLowerCase: a new array
MapToLowerCase(arr) == [i \in 1..Len(arr) |-> toLowerCase(arr[i])]

\* Array.prototype.includes
Includes(arr, x) == \E i \in 1..Len(arr) : arr[i] = x

\* mutant of isBlockHasStyle: style is not lower-cased
isBlockHasStyleExact(block, style) ==
    Includes(MapToLowerCase(block.styles), style)

\* block.styles.map((s) => s.toLowerCase()).includes(style.toLowerCase())
isBlockHasStyle(block, style) ==
    Includes(MapToLowerCase(block.styles), toLowerCase(style))

\* the block after isBlockHasStyle ran on it: map leaves block.styles as it was
BlockAfterMap(block) == block

ImageVariants ==
    {[url |-> "https://cdn/s.jpg", width |-> 100, height |-> 50, filename |-> "s.jpg"],
     [url |-> "https://cdn/l.jpg", width |-> 800, height |-> 400, filename |-> "l.jpg"],
     [url |-> "https://cdn/x.jpg", width |-> 1600, height |-> 800, filename |-> "x.jpg"]}
Images == [alt : {"cover"}, variants : SeqsUpTo(ImageVariants, MaxVariants)]

\* image.variants[1]: the element at index 1 of a zero-based array; reading an
\* index past the end of a JavaScript array yields undefined and throws nothing
getLargeImageVariant(image) ==
    IF Len(image.variants) >= 2 THEN Value(image.variants[2]) ELSE Value(Undef)

\* isBlockHasStyle is called on the client with some block and style: it runs
\* to completion in one step
CallIsBlockHasStyle ==
    /\ client.state = "ready"
    /\ helper.fn = "none"
    /\ \E block \in Blocks, style \in Styles :
           helper' = [fn |-> "isBlockHasStyle", input |-> block, style |-> style,
                      block |-> BlockAfterMap(block),
                      out |-> isBlockHasStyle(block, style)]
    /\ UNCHANGED <<env, client, calls, wire>>

\* getLargeImageVariant is called on the client with some image
CallGetLargeImageVariant ==
    /\ client.state = "ready"
    /\ helper.fn = "none"
    /\ \E image \in Images :
           helper' = [fn |-> "getLargeImageVariant", input |-> image,
                      out |-> getLargeImageVariant(image)]
    /\ UNCHANGED <<env, client, calls, wire>>

\* the caller has taken the helper's result
ReturnHelper ==
    /\ helper.fn # "none"
    /\ helper' = NoHelper
    /\ UNCHANGED <<env, client, calls, wire>>

InitHelpers == InitGet

NextHelpers ==
    \/ CallIsBlockHasStyle
    \/ CallGetLargeImageVariant
    \/ ReturnHelper

SpecHelpers == InitHelpers /\ [][NextHelpers]_vars

----------------------------------------------------------------------------
(* Properties *)

\* an argument or environment value that is missing or the empty string
Absent(v) == v = Undef \/ v = Str("")

\* what construction resolves from an argument and its environment fallback
Fallback(arg, envValue) == IF Absent(arg) THEN envValue ELSE arg

TokenAtConstruction == Fallback(client.apiToken, env.NEXT_PUBLIC_JUSTCMS_TOKEN)
ProjectAtConstruction == Fallback(client.projectIdParam, env.NEXT_PUBLIC_JUSTCMS_PROJECT)

HasKey(params, k) == \E i \in 1..Len(params) : params[i][1] = k
ValuesOf(params, k) == {params[i][2] : i \in {j \in 1..Len(params) : params[j][1] = k}}

\* the calls that have issued their request
InFlight == {c \in CallIds : calls[c].pc # "idle"}

\* C1: construction resolves token and project id from the argument, falling
\* back to the environment when the argument is missing or empty; it succeeds
\* exactly when both resolve to non-empty strings, and otherwise throws at
\* construction (the configuration error: "... token is required" /
\* "... project ID is required"), with no request issued.
C1_ConstructionResolvesOrFails ==
    client.state # "none" =>
        /\ (client.state = "ready")
               = (~Absent(TokenAtConstruction) /\ ~Absent(ProjectAtConstruction))
        /\ client.state = "ready" =>
               /\ client.token = TokenAtConstruction
               /\ client.projectId = ProjectAtConstruction
               /\ client.error.name = "none"
        /\ client.state = "failed" =>
               /\ client.error.name = "Error"
               /\ client.error.message =
                      IF Absent(TokenAtConstruction)
                      THEN "JustCMS API token is required"
                      ELSE "JustCMS project ID is required"
               /\ \A c \in CallIds : calls[c].pc = "idle" /\ wire[c] = <<>>

\* C1 witness: an empty project-id argument with no environment fallback makes
\* construction throw although the token is given
C1_Witness ==
    /\ client.state = "failed"
    /\ client.apiToken = Str("tok")
    /\ client.projectIdParam = Str("")
    /\ env.NEXT_PUBLIC_JUSTCMS_PROJECT = Undef
    /\ client.error.message = "JustCMS project ID is required"

\* a call that received a non-2xx response and read its body
NonOkRead(c) ==
    /\ calls[c].pc = "done"
    /\ calls[c].body = "read"
    /\ calls[c].resp.status \notin 200..299

\* C2 as stated: a non-2xx response makes the call fail with an error that
\* carries the status code and the raw body text as separate fields status, body.
C2_ApiErrorFields ==
    \A c \in CallIds :
        NonOkRead(c) =>
            /\ calls[c].out.kind = "error"
            /\ {"status", "body"} \subseteq DOMAIN calls[c].out.error
            /\ calls[c].out.error.status = calls[c].resp.status
            /\ calls[c].out.error.body = calls[c].resp.body

StatusDigits(n) ==
    CASE n = 404 -> "404"
      [] n = 500 -> "500"
      [] OTHER -> "???"

\* C2 amended: a non-2xx response whose body text is read makes the call fail
\* with a plain Error whose only payload is the message
\* "JustCMS API error <status>: <body>": the status code and the raw body text
\* verbatim inside one string, the body never parsed as JSON.
C2_ApiErrorMessage ==
    \A c \in CallIds :
        NonOkRead(c) =>
            /\ calls[c].out.kind = "error"
            /\ calls[c].out.value = Undef
            /\ DOMAIN calls[c].out.error = {"name", "message"}
            /\ calls[c].out.error.name = "Error"
            /\ calls[c].out.error.message =
                   "JustCMS API error " \o StatusDigits(calls[c].resp.status)
                       \o ": " \o calls[c].resp.body

\* C2 witness: getPageBySlug("missing") answered 404 "not found"
C2_Witness ==
    \E c \in CallIds :
        /\ calls[c].pc = "done"
        /\ calls[c].call = [op |-> "getPageBySlug", slug |-> "missing", version |-> Undef]
        /\ calls[c].resp = [status |-> 404, body |-> "not found"]
        /\ calls[c].out.error.message = "JustCMS API error 404: not found"

\* the decoded value a successful call returns for a body
Decoded(op, body) ==
    CASE body = CategoriesBody /\ op = "getCategories" -> Arr(<<BlogCategory>>)
      [] body = CategoriesBody /\ op # "getCategories" ->
             Obj(<< <<"categories", Arr(<<BlogCategory>>)>> >>)
      [] body = MessageBody /\ op = "getCategories" -> Undef
      [] body = MessageBody /\ op # "getCategories" -> Obj(<< <<"message", Str("gone")>> >>)
      [] OTHER -> Null

\* C3: an accessor call issues exactly one request, never a second one after
\* any outcome, and ends with exactly one outcome: the decoded value of a 2xx
\* response, or one error (and then no value).
C3_OneRequestOneOutcome ==
    \A c \in CallIds :
        /\ calls[c].pc = "idle" => wire[c] = <<>>
        /\ calls[c].pc # "idle" => Len(wire[c]) = 1
        /\ (calls[c].pc = "done") = (calls[c].out.kind \in {"value", "error"})
        /\ calls[c].pc # "done" => calls[c].out = NoOutcome
        /\ calls[c].out.kind = "value" =>
               /\ calls[c].resp.status \in 200..299
               /\ calls[c].body = "read"
               /\ calls[c].resp.body \in {CategoriesBody, MessageBody, NullBody}
               /\ calls[c].out.value = Decoded(calls[c].call.op, calls[c].resp.body)
               /\ calls[c].out.error.name = "none"
        /\ calls[c].out.kind = "error" =>
               /\ calls[c].out.value = Undef
               /\ calls[c].out.error.name \in {"Error", "TypeError", "SyntaxError"}

\* C3 witness: a 2xx response that is not JSON: one request, one error, no value
C3_Witness ==
    \E c \in CallIds :
        /\ calls[c].pc = "done"
        /\ calls[c].resp = [status |-> 200, body |-> NotFoundBody]
        /\ calls[c].out.kind = "error"
        /\ calls[c].out.error.name = "SyntaxError"
        /\ Len(wire[c]) = 1

CountDigits(v) == IF v = Num(0) THEN "0" ELSE "10"

\* C5: getPages sends filter.category.slug, start and offset only when the
\* source value is defined, and sends start and offset whenever they are
\* defined, zero included: {start: 0, offset: 10} gives start=0 and offset=10.
C5_PagesQueryKeys ==
    \A c \in InFlight :
        calls[c].call.op = "getPages" =>
            LET p == calls[c].call.params
                q == wire[c][1].searchParams
                given == p # Undef
            IN  /\ HasKey(q, "start") = (given /\ p.start # Undef)
                /\ HasKey(q, "offset") = (given /\ p.offset # Undef)
                /\ HasKey(q, "start") => ValuesOf(q, "start") = {CountDigits(p.start)}
                /\ HasKey(q, "offset") => ValuesOf(q, "offset") = {CountDigits(p.offset)}
                /\ HasKey(q, "filter.category.slug") =>
                       /\ given /\ p.filters # Undef
                       /\ ValuesOf(q, "filter.category.slug") = {p.filters.category.slug.v}
                /\ \A i \in 1..Len(q) : q[i][1] \in {"filter.category.slug", "start", "offset"}
                /\ (given /\ p.filters = Undef /\ p.start = Num(0) /\ p.offset = Num(10)) =>
                       q = << <<"start", "0">>, <<"offset", "10">> >>

\* C5 witness: getPages({start: 0, offset: 10})
C5_Witness ==
    \E c \in InFlight :
        /\ calls[c].call = [op |-> "getPages",
                            params |-> [t |-> "object", filters |-> Undef,
                                        start |-> Num(0), offset |-> Num(10)]]
        /\ client.projectId = Str("proj")
        /\ wire[c][1].url = "https://api.justcms.co/public/proj/pages?start=0&offset=10"

RECURSIVE IdsPath(_)
\* the ids in the given order with ';' between them
IdsPath(ids) ==
    IF Len(ids) = 0 THEN ""
    ELSE IF Len(ids) = 1 THEN ids[1]
    ELSE IdsPath(SubSeq(ids, 1, Len(ids) - 1)) \o ";" \o ids[Len(ids)]

\* the operation table: what follows {base}/{projectId}
TablePath(a) ==
    CASE a.op = "getCategories" -> ""
      [] a.op = "getPages" -> "/pages"
      [] a.op = "getPageBySlug" -> "/pages/" \o a.slug
      [] a.op = "getMenuById" -> "/menus/" \o a.id
      [] a.op = "getLayoutById" -> "/layouts/" \o a.id
      [] a.op = "getLayoutsByIds" -> "/layouts/" \o IdsPath(a.ids)

\* C6: every request goes to {base}/{projectId}[/{path}] with the hardcoded
\* base, the project id resolved at construction and the path of the operation
\* table (ids joined with ';', unescaped, in the given order), and carries
\* exactly one header, Authorization: Bearer {token resolved at construction}.
C6_RequestUrlAndHeader ==
    \A c \in InFlight :
        LET a == calls[c].call
            r == wire[c][1]
        IN  /\ r.path = "https://api.justcms.co/public/"
                            \o ProjectAtConstruction.v \o TablePath(a)
            /\ r.searchParams = <<>> => r.url = r.path
            /\ a.op \notin {"getPages", "getPageBySlug"} => r.searchParams = <<>>
            /\ r.headers = << <<"Authorization", "Bearer " \o TokenAtConstruction.v>> >>
            /\ a = [op |-> "getLayoutsByIds", ids |-> <<"a", "b">>] =>
                   r.url = "https://api.justcms.co/public/"
                               \o ProjectAtConstruction.v \o "/layouts/a;b"

\* C6 witness: getLayoutsByIds(["a", "b"]) on a client built from the environment
C6_Witness ==
    \E c \in InFlight :
        /\ calls[c].call = [op |-> "getLayoutsByIds", ids |-> <<"a", "b">>]
        /\ client.apiToken = Undef /\ client.projectIdParam = Str("")
        /\ wire[c][1].url = "https://api.justcms.co/public/envproj/layouts/a;b"
        /\ wire[c][1].headers = << <<"Authorization", "Bearer envtok">> >>

\* C10: an empty filters.category.slug or an empty version never reaches the
\* request: no accessor sends filter.category.slug or v with an empty value.
C10_EmptyOptionalsDropped ==
    \A c \in InFlight :
        LET a == calls[c].call
            q == wire[c][1].searchParams
        IN  /\ (a.op = "getPages" /\ a.params # Undef /\ a.params.filters # Undef) =>
                   HasKey(q, "filter.category.slug") = (a.params.filters.category.slug # Str(""))
            /\ a.op = "getPageBySlug" =>
                   /\ HasKey(q, "v") = (a.version \notin {Undef, Str("")})
                   /\ HasKey(q, "v") => q = << <<"v", a.version.v>> >>
            /\ "" \notin ValuesOf(q, "filter.category.slug") \cup ValuesOf(q, "v")

\* C10 witness: getPages with an empty category slug sends no filter key
C10_Witness ==
    \E c \in InFlight :
        /\ calls[c].call.op = "getPages"
        /\ calls[c].call.params # Undef
        /\ calls[c].call.params.filters = [t |-> "object", category |-> [slug |-> Str("")]]
        /\ calls[c].call.params.start = Undef
        /\ calls[c].call.params.offset = Undef
        /\ wire[c][1].searchParams = <<>>
        /\ client.projectId = Str("proj")
        /\ wire[c][1].url = "https://api.justcms.co/public/proj/pages"

ScalarText(v) ==
    CASE v = Num(0) -> "0"
      [] v = Num(10) -> "10"
      [] v = Str("") -> ""
      [] v = Str("x") -> "x"

\* C4: a key of the query mapping given to get appears in the URL's query
\* exactly when its value is neither undefined nor null; 0 and "" appear, as
\* "0" and as the empty value.
C4_QueryKeyIffDefined ==
    \A c \in InFlight :
        calls[c].call.op = "get" =>
            LET given == calls[c].call.queryParams
                entries == IF given = Undef THEN <<>> ELSE given.entries
                q == wire[c][1].searchParams
                defined == {i \in 1..Len(entries) : entries[i][2] \notin {Undef, Null}}
            IN  /\ \A k \in QueryKeys :
                       HasKey(q, k) = (\E i \in defined : entries[i][1] = k)
                /\ \A i \in defined :
                       ValuesOf(q, entries[i][1]) = {ScalarText(entries[i][2])}
                /\ \A i \in 1..Len(q) : q[i][1] \in QueryKeys
                /\ Len(q) = Cardinality(defined)

\* C4 witness: get("pages", {q: null, v: ""}) sends v with an empty value and no q
C4_Witness ==
    \E c \in InFlight :
        /\ calls[c].call = [op |-> "get", endpoint |-> "pages",
                            queryParams |-> Obj(<< <<"q", Null>>, <<"v", Str("")>> >>)]
        /\ wire[c][1].searchParams = << <<"v", "">> >>
        /\ wire[c][1].url = "https://api.justcms.co/public/proj/pages?v="

\* what follows {base}/{projectId} in the URL of each of FewCalls
FewUrlTail(a) ==
    CASE a = [op |-> "getCategories"] -> ""
      [] a = [op |-> "getPageBySlug", slug |-> "missing", version |-> Undef] ->
             "/pages/missing"
      [] a = [op |-> "getPageBySlug", slug |-> "about", version |-> Str("draft")] ->
             "/pages/about?v=draft"
      [] a = [op |-> "getLayoutsByIds", ids |-> <<"a", "b">>] -> "/layouts/a;b"

\* the outcome of a finished call, from its own arguments and response alone
FewOutcome(call) ==
    IF call.body # "read" THEN Failure(TransportError)
    ELSE IF call.resp.status = 404
    THEN Failure(Err("Error", "JustCMS API error 404: not found"))
    ELSE IF call.resp.body = NotFoundBody THEN Failure(ParseError)
    ELSE Value(Decoded(call.call.op, call.resp.body))

\* each call's request and outcome are those of its own arguments and response
OwnRequestOwnOutcome ==
    \A c \in InFlight :
        /\ Len(wire[c]) = 1
        /\ wire[c][1].url = "https://api.justcms.co/public/"
                                \o client.projectId.v \o FewUrlTail(calls[c].call)
        /\ wire[c][1].headers = << <<"Authorization", "Bearer " \o client.token.v>> >>
        /\ calls[c].pc = "done" => calls[c].out = FewOutcome(calls[c])

\* a step leaves a built client as it is, and touches one call at most
OneCallPerStep ==
    /\ client.state = "ready" => client' = client
    /\ \A c, d \in CallIds :
           (c # d /\ (calls'[c] # calls[c] \/ wire'[c] # wire[c])) =>
               (calls'[d] = calls[d] /\ wire'[d] = wire[d])

\* C7: token and project id never change after construction, and calls in
\* flight together are independent under every interleaving: a call's URL,
\* header and outcome are those of its own arguments and its own response, and
\* no step of one call changes another.
C7_CallsIndependent == []OwnRequestOwnOutcome /\ [][OneCallPerStep]_vars

\* C7 witness: the same call twice in flight, one answered 404 and one 200,
\* each finished with its own outcome
C7_Witness ==
    \E c, d \in CallIds :
        /\ c # d
        /\ calls[c].call = [op |-> "getCategories"]
        /\ calls[d].call = [op |-> "getCategories"]
        /\ calls[c].pc = "done" /\ calls[d].pc = "done"
        /\ calls[c].resp = [status |-> 404, body |-> NotFoundBody]
        /\ calls[d].resp = [status |-> 200, body |-> CategoriesBody]
        /\ calls[c].out.kind = "error"
        /\ calls[d].out = Value(Arr(<<BlogCategory>>))

\* C8 as stated: getLargeImageVariant returns the second variant when there
\* are at least two, and fails (returns no value) when there are fewer.
C8_LargeVariantOrFailure ==
    helper.fn = "getLargeImageVariant" =>
        IF Len(helper.input.variants) >= 2
        THEN helper.out = Value(helper.input.variants[2])
        ELSE helper.out.kind = "error"

\* two characters that are the same letter in either case
SameLetter(x, y) == x = y \/ {x, y} \in {{"a", "A"}, {"b", "B"}}

EqualIgnoringCase(s, t) ==
    Len(s) = Len(t) /\ \A i \in 1..Len(s) : SameLetter(s[i], t[i])

\* C9: isBlockHasStyle is true exactly when some element of block.styles
\* equals style up to case (so never for an empty list), and block.styles is
\* left as it was.
C9_StyleMembershipIgnoringCase ==
    helper.fn = "isBlockHasStyle" =>
        /\ helper.out =
               (\E i \in 1..Len(helper.input.styles) :
                    EqualIgnoringCase(helper.input.styles[i], helper.style))
        /\ helper.input.styles = <<>> => helper.out = FALSE
        /\ helper.block = helper.input

\* C9 witness: styles ["b", "Aa"] has style "aA"
C9_Witness ==
    /\ helper.fn = "isBlockHasStyle"
    /\ helper.input.styles = << <<"b">>, <<"A", "a">> >>
    /\ helper.style = <<"a", "A">>
    /\ helper.out = TRUE

====
